---- MODULE Spec2Model ----
(***************************************************************************)
(* A model of the retrieval pipeline of DocumentAssistant: the session     *)
(* state kept by the Streamlit application (documents, global tag set,     *)
(* active vector store, backend settings), the vector-store construction   *)
(* of vector_store.py with its two backends, the cloud index that          *)
(* PineconeVectorStore writes to, and the CitationTrackingHandler of       *)
(* citation_handler.py.                                                    *)
(*                                                                         *)
(* Strings whose characters matter (tags, tags_str) are sequences of       *)
(* one-character strings; strings that are only concatenated (doc_id,      *)
(* source, citation keys) are TLA+ strings.                                *)
(***************************************************************************)
EXTENDS Integers, Sequences, FiniteSets, TLC

VARIABLES
    \* ---- st.session_state (app.py initialize_session_state) ----
    documents,          \* st.session_state.documents: list of document dicts
    tags,               \* st.session_state.tags: set of all unique tags
    vectorstore,        \* st.session_state.vectorstore: None or a store object
    vectorstore_type,   \* st.session_state.vectorstore_type
    pinecone_index,     \* st.session_state.pinecone_index
    chat_history,       \* st.session_state.chat_history
    \* ---- process environment and external services ----
    env,                \* os.environ: which API keys are set
    remote,             \* records held by the (pre-created) Pinecone index
    uuids,              \* number of uuid4 values drawn so far
    \* ---- the last operation on documents, index or chat, and its outcome ----
    last,
    \* ---- CitationTrackingHandler instance ----
    citations,          \* self.citations
    citation_sources,   \* self.citation_sources
    batch,              \* the documents handed to the handler
    earlier,            \* the documents of the retrieval before that one
    cite_pc,            \* "fresh", "started" or "done"
    \* ---- tag encoding round trip ----
    rt_tags,            \* a document's tag list
    rt_str,             \* the tags_str stored with its chunks
    rt_out,             \* the tag list rebuilt for the citation
    rt_pc,
    \* ---- a single similarity query ----
    q_index,            \* records the queried index holds
    q_out,              \* outcome of the query
    q_pc,
    \* ---- one call of process_document ----
    file_extension,     \* Path(file.name).suffix.lower()
    modules,            \* which of the optional OCR modules can be imported
    tmp,                \* the temporary file on disk and the handles on it
    tmp_path,           \* the local tmp_path: None or the file's name
    pd_pc               \* position in process_document

vars == <<documents, tags, vectorstore, vectorstore_type, pinecone_index,
          chat_history, env, remote, uuids, last,
          citations, citation_sources, batch, earlier, cite_pc,
          rt_tags, rt_str, rt_out, rt_pc, q_index, q_out, q_pc,
          file_extension, modules, tmp, tmp_path, pd_pc>>

sessionVars == <<documents, tags, vectorstore, vectorstore_type, pinecone_index,
                 chat_history, env, remote, uuids, last>>
citeVars    == <<citations, citation_sources, batch, earlier, cite_pc>>
rtVars      == <<rt_tags, rt_str, rt_out, rt_pc>>
queryVars   == <<q_index, q_out, q_pc>>
docVars     == <<file_extension, modules, tmp, tmp_path, pd_pc>>

(***************************************************************************)
(* Bounds of the model.                                                    *)
(***************************************************************************)
MaxBatch == 3       \* longest batch handed to on_retriever_end
MaxTagList == 2     \* longest tag list of the round trip

None == [none |-> TRUE]

\* dict.get(key, default)
Get(m, key, default) == IF key \in DOMAIN m THEN m[key] ELSE default

SeqToSet(s) == {s[i] : i \in 1..Len(s)}

\* all sequences over S of length at most n
RECURSIVE SeqsUpTo(_, _)
SeqsUpTo(S, n) ==
    IF n = 0 THEN {<<>>}
    ELSE LET shorter == SeqsUpTo(S, n - 1)
         IN  shorter \cup {Append(s, x) : s \in {t \in shorter : Len(t) = n - 1}, x \in S}

(***************************************************************************)
(* citation_handler.py                                                     *)
(***************************************************************************)

\* A retrieved record.  shape "object": has page_content and metadata
\* attributes; "dict": a mapping; "str": a bare string; "other": anything
\* else.  metadata is a mapping (a record of the keys present) or a value
\* that is no mapping, [py_type |-> its type name].
IsMapping(m) == "py_type" \notin DOMAIN m

\* hash() of a str: distinct texts of the model hash to distinct integers
Hash(s) ==
    CASE s = "alpha" -> 11
      [] s = "beta"  -> 22
      [] OTHER       -> 33

\* f"{doc_id}_{page}_{chunk}_{source}"
citation_key(doc_id, page, chunk, source) ==
    doc_id \o "_" \o ToString(page) \o "_" \o ToString(chunk) \o "_" \o source

\* str.split(",") on a sequence of characters
RECURSIVE split(_)
split(s) ==
    IF \A i \in 1..Len(s) : s[i] # ","
    THEN <<s>>
    ELSE LET i == CHOOSE i \in 1..Len(s) :
                     s[i] = "," /\ \A j \in 1..(i - 1) : s[j] # ","
         IN  <<SubSeq(s, 1, i - 1)>> \o split(SubSeq(s, i + 1, Len(s)))

\* A mutation of the decoding: the "if tags_str" guard is dropped.
tags_from_str_unguarded(tags_str) == split(tags_str)

\* tags = []; if tags_str and isinstance(tags_str, str): tags = tags_str.split(",")
tags_from_str(tags_str) == IF tags_str # <<>> THEN split(tags_str) ELSE <<>>

\* metadata.get(...) on a value that is no mapping raises AttributeError
AttributeError(m) == "'" \o m.py_type \o "' object has no attribute 'get'"

\* The citation appended for a record with metadata (both the object and
\* the dict branch build the same dictionary).
MetadataCitation(content, metadata) ==
    [text     |-> content,
     source   |-> Get(metadata, "source", "Unknown"),
     doc_id   |-> Get(metadata, "doc_id", "Unknown"),
     doc_type |-> Get(metadata, "doc_type", "Unknown"),
     case_id  |-> Get(metadata, "case_id", "Unknown"),
     tags     |-> tags_from_str(Get(metadata, "tags_str", <<>>)),
     page     |-> Get(metadata, "page", 0),
     chunk    |-> Get(metadata, "chunk", 0)]

MetadataKey(metadata) ==
    citation_key(Get(metadata, "doc_id", "Unknown"), Get(metadata, "page", 0),
                 Get(metadata, "chunk", 0), Get(metadata, "source", "Unknown"))

\* A mutation of the citation of a bare string: the text is left out.
UnknownCitationBlank(content) ==
    [text |-> "", source |-> "Unknown", doc_id |-> "Unknown",
     doc_type |-> "Unknown", case_id |-> "Unknown", tags |-> <<>>,
     page |-> 0, chunk |-> 0]

\* the citation of a bare string or of a record of unknown format
UnknownCitation(content) ==
    [text |-> content, source |-> "Unknown", doc_id |-> "Unknown",
     doc_type |-> "Unknown", case_id |-> "Unknown", tags |-> <<>>,
     page |-> 0, chunk |-> 0]

ErrorCitation(e) ==
    [text |-> "[Error processing document: " \o e \o "]", source |-> "Error",
     doc_id |-> "Error", doc_type |-> "Error", case_id |-> "Error",
     tags |-> <<>>, page |-> 0, chunk |-> 0]

\* A mutation of the append: the new citation is put in front.
CitePrepend(h, key, citation) ==
    IF key \in h.citation_sources
    THEN h
    ELSE [h EXCEPT !.citation_sources = @ \cup {key},
                   !.citations = <<citation>> \o @]

\* "if citation_key in self.citation_sources: continue", else add and append
Cite(h, key, citation) ==
    IF key \in h.citation_sources
    THEN h
    ELSE [h EXCEPT !.citation_sources = @ \cup {key},
                   !.citations = Append(@, citation)]

\* The body of the try block for one record: the handler state it leaves,
\* or the exception it raises (raised before any state is written).
TryRecord(h, doc) ==
    CASE doc.shape \in {"object", "dict"} ->
            IF IsMapping(doc.metadata)
            THEN [ok |-> TRUE,
                  h  |-> Cite(h, MetadataKey(doc.metadata),
                              MetadataCitation(doc.page_content, doc.metadata))]
            ELSE [ok |-> FALSE, e |-> AttributeError(doc.metadata)]
      [] doc.shape = "str" ->
            [ok |-> TRUE,
             h  |-> Cite(h, "string_" \o ToString(Hash(doc.page_content)),
                         UnknownCitation(doc.page_content))]
      [] OTHER ->
            [ok |-> TRUE,
             h  |-> Cite(h, "unknown_" \o ToString(Hash(doc.page_content)),
                         UnknownCitation(doc.page_content))]

\* A mutation of the except block: the exception leaves the loop.
ExceptRecordReraise(h, e) == [h EXCEPT !.raised = TRUE]

\* A mutation of the except block: the seen set is not consulted.
ExceptRecordEveryFailure(h, e) ==
    [h EXCEPT !.citation_sources = @ \cup {"error_" \o e},
              !.citations = Append(@, ErrorCitation(e))]

\* The except block: an error citation, deduplicated by message.
ExceptRecord(h, e) == Cite(h, "error_" \o e, ErrorCitation(e))

\* for doc in documents: try ... except ...
RECURSIVE ForEachRecord(_, _)
ForEachRecord(h, docs) ==
    IF docs = <<>> \/ h.raised
    THEN h
    ELSE LET r  == TryRecord(h, Head(docs))
             h2 == IF r.ok THEN r.h ELSE ExceptRecord(h, r.e)
         IN  ForEachRecord(h2, Tail(docs))

\* A mutation of the reset: the fields are left as they are.
ResetHandlerKeep(h) == h

\* self.citations = []; self.citation_sources = set()
ResetHandler(h) == [citations |-> <<>>, citation_sources |-> {}, raised |-> FALSE]

\* on_retriever_end on a handler in state h
on_retriever_end_from(h, docs) == ForEachRecord(ResetHandler(h), docs)

\* on_retriever_end as a function of the batch: both fields are reset first.
on_retriever_end_result(docs) ==
    ForEachRecord([citations |-> <<>>, citation_sources |-> {}, raised |-> FALSE],
                  docs)

(***************************************************************************)
(* vector_store.py                                                         *)
(***************************************************************************)
chunk_size == 1000
chunk_overlap == 100
batch_size == 100
RetrieverK == 5          \* search_kwargs={"k": 5}

\* Page texts are named by their content; equal names are equal texts.
\* None of them holds a separator, so the splitter cuts at character
\* positions.
PageTexts == {"", "short", "long"}
TextLen(p) ==
    CASE p = ""      -> 0
      [] p = "short" -> 800
      [] OTHER       -> 1500

\* text[a:b]
Slice(p, a, b) == p \o "[" \o ToString(a) \o ":" \o ToString(b) \o "]"

\* RecursiveCharacterTextSplitter(chunk_size, chunk_overlap).split_text on a
\* text without separators: windows of chunk_size characters, each starting
\* chunk_size - chunk_overlap after the previous one; no chunk for "".
RECURSIVE split_from(_, _)
split_from(p, a) ==
    IF TextLen(p) - a <= chunk_size
    THEN <<Slice(p, a, TextLen(p))>>
    ELSE <<Slice(p, a, a + chunk_size)>> \o split_from(p, a + chunk_size - chunk_overlap)

split_text(p) == IF TextLen(p) = 0 THEN <<>> ELSE split_from(p, 0)

\* ",".join(tags_list) on tags that are sequences of characters
RECURSIVE join(_)
join(tags_list) ==
    IF tags_list = <<>> THEN <<>>
    ELSE IF Len(tags_list) = 1 THEN tags_list[1]
    ELSE tags_list[1] \o <<",">> \o join(Tail(tags_list))

\* A mutation of the metadata dictionary: every chunk is numbered 0.
ChunkDocumentUnnumbered(doc, i, j, chunk) ==
    [page_content |-> chunk,
     metadata |-> [source   |-> Get(doc, "title", ""),
                   doc_id   |-> Get(doc, "id", ""),
                   doc_type |-> Get(doc, "type", ""),
                   case_id  |-> Get(doc, "case_id", ""),
                   tags_str |-> join(Get(doc, "tags", <<>>)),
                   page     |-> i,
                   chunk    |-> 0,
                   text     |-> chunk]]

\* The metadata dictionary and Document built for chunk j of page i; a
\* field the document lacks is read as "" (doc.get(key, "")).
ChunkDocument(doc, i, j, chunk) ==
    [page_content |-> chunk,
     metadata |-> [source   |-> Get(doc, "title", ""),
                   doc_id   |-> Get(doc, "id", ""),
                   doc_type |-> Get(doc, "type", ""),
                   case_id  |-> Get(doc, "case_id", ""),
                   tags_str |-> join(Get(doc, "tags", <<>>)),
                   page     |-> i,
                   chunk    |-> j,
                   text     |-> chunk]]

\* for j, chunk in enumerate(chunks)          (i and j count from 0)
PageDocuments(doc, i) ==
    LET chunks == split_text(doc.pages[i + 1])
    IN  [j \in 1..Len(chunks) |-> ChunkDocument(doc, i, j - 1, chunks[j])]

\* for i, page_text in enumerate(doc["pages"]): the Documents of the pages
\* lo..hi-1 in page order (the range is halved to keep the evaluation shallow)
RECURSIVE DocDocumentsIn(_, _, _)
DocDocumentsIn(doc, lo, hi) ==
    IF lo >= hi THEN <<>>
    ELSE IF hi = lo + 1 THEN PageDocuments(doc, lo)
    ELSE LET mid == (lo + hi) \div 2
         IN  DocDocumentsIn(doc, lo, mid) \o DocDocumentsIn(doc, mid, hi)

DocDocumentsFrom(doc, i) == DocDocumentsIn(doc, i, Len(doc.pages))

\* if not isinstance(doc, dict) or "pages" not in doc
SkipDocument(doc) == ~IsMapping(doc) \/ "pages" \notin DOMAIN doc

\* A mutation of the loop: an invalid document ends it (break for continue).
RECURSIVE build_langchain_docs_break(_)
build_langchain_docs_break(docs) ==
    IF docs = <<>> THEN <<>>
    ELSE IF SkipDocument(Head(docs)) THEN <<>>
    ELSE DocDocumentsFrom(Head(docs), 0) \o build_langchain_docs_break(Tail(docs))

\* for doc in documents: ... langchain_docs.append(...); an invalid
\* document is skipped and the loop goes on
RECURSIVE build_langchain_docs(_)
build_langchain_docs(docs) ==
    IF docs = <<>> THEN <<>>
    ELSE IF SkipDocument(Head(docs)) THEN build_langchain_docs(Tail(docs))
    ELSE DocDocumentsFrom(Head(docs), 0) \o build_langchain_docs(Tail(docs))

\* uuid4 values: the n-th value drawn for a vector id / a document id
VectorId(n) == "v" \o ToString(n)
DocId(n) == "d" \o ToString(n)

\* The names list_indexes() returns: the one pre-created index.
RemoteIndexes == {"idx"}

\* PineconeVectorStore._upload_documents: batches of batch_size; every
\* document of a batch is embedded before the batch is upserted.  fail_at is
\* the position (from 1) of the first chunk whose embedding or upsert the
\* service refuses, 0 when it refuses none.  Returns the records written
\* and whether the upload raised.
RECURSIVE upload_batches(_, _, _, _)
upload_batches(langchain_docs, i, fail_at, first_id) ==
    IF i >= Len(langchain_docs)
    THEN [written |-> {}, raised |-> FALSE]
    ELSE LET hi == IF i + batch_size < Len(langchain_docs)
                   THEN i + batch_size ELSE Len(langchain_docs)
         IN  IF fail_at \in (i + 1)..hi
             THEN [written |-> {}, raised |-> TRUE]
             ELSE LET vectors == {[id |-> VectorId(first_id + n),
                                   metadata |-> langchain_docs[n].metadata] :
                                      n \in (i + 1)..hi}
                      rest == upload_batches(langchain_docs, hi, fail_at, first_id)
                  IN  [written |-> vectors \cup rest.written, raised |-> rest.raised]

\* vectors of one batch: the chunks lo+1..hi, each under its own uuid4 id
batch_vectors(langchain_docs, lo, hi, first_id) ==
    [n \in 1..(hi - lo) |-> [id |-> VectorId(first_id + lo + n),
                             metadata |-> langchain_docs[lo + n].metadata]]

\* A mutation of the batch loop: a last batch of fewer than batch_size
\* chunks is not sent.
RECURSIVE upsert_requests_full_batches(_, _, _, _)
upsert_requests_full_batches(langchain_docs, i, fail_at, first_id) ==
    IF i + batch_size > Len(langchain_docs) \/ fail_at \in (i + 1)..(i + batch_size)
    THEN <<>>
    ELSE <<batch_vectors(langchain_docs, i, i + batch_size, first_id)>>
            \o upsert_requests_full_batches(langchain_docs, i + batch_size, fail_at, first_id)

\* PineconeVectorStore._upload_documents: the index.upsert(vectors=...)
\* calls made, in order, up to the batch in which a chunk is refused
RECURSIVE upsert_requests(_, _, _, _)
upsert_requests(langchain_docs, i, fail_at, first_id) ==
    IF i >= Len(langchain_docs) THEN <<>>
    ELSE LET hi == IF i + batch_size < Len(langchain_docs)
                   THEN i + batch_size ELSE Len(langchain_docs)
         IN  IF fail_at \in (i + 1)..hi THEN <<>>
             ELSE <<batch_vectors(langchain_docs, i, hi, first_id)>>
                     \o upsert_requests(langchain_docs, hi, fail_at, first_id)

\* if vectorstore_type == "pinecone"
IsPineconeType(vtype) == vtype = "pinecone"

\* initialize_vectorstore(documents, vectorstore_type, pinecone_index) in the
\* environment e (API keys set, records in the cloud index, uuid4 values
\* drawn); fail_at as above.  Returns the value returned to the caller, the
\* cloud index afterwards and the vector ids drawn; caught is the exception
\* the except clause of the function caught ("none" when none was raised),
\* raises the exception that leaves the call: the clause catches Exception
\* and returns None, so none ever does.
initialize_vectorstore(docs, vtype, pindex, e, fail_at) ==
    LET langchain_docs == build_langchain_docs(docs)
        nothing == [store |-> None, remote |-> e.remote, vectors |-> e.vectors,
                    outcome |-> "none", caught |-> "none", raises |-> "none"]
        failed(exception) == [nothing EXCEPT !.outcome = "error", !.caught = exception]
    IN  IF docs = <<>> THEN [nothing EXCEPT !.outcome = "no documents"]
        ELSE IF langchain_docs = <<>> THEN [nothing EXCEPT !.outcome = "no chunks"]
        \* embeddings = OpenAIEmbeddings(): needs the OpenAI key
        ELSE IF "OPENAI_API_KEY" \notin e.keys
             THEN failed("ValidationError")
        ELSE IF IsPineconeType(vtype)
             THEN IF \/ "PINECONE_API_KEY" \notin e.keys
                     \/ pindex = ""
                     \/ pindex \notin RemoteIndexes
                  THEN failed("ValueError")
                  ELSE LET up == upload_batches(langchain_docs, 0, fail_at, e.vectors)
                           n  == Cardinality(up.written)
                       IN  [store   |-> IF up.raised THEN None
                                        ELSE [kind |-> "pinecone", index_name |-> pindex],
                            remote  |-> e.remote \cup up.written,
                            vectors |-> e.vectors + n,
                            outcome |-> IF up.raised THEN "error" ELSE "built",
                            caught  |-> IF up.raised THEN "Exception" ELSE "none",
                            raises  |-> "none"]
             \* Chroma.from_documents: a new in-memory collection of the chunks
             ELSE IF fail_at # 0
                  THEN failed("Exception")
                  ELSE [nothing EXCEPT !.store = [kind |-> "chroma", docs |-> langchain_docs],
                                       !.outcome = "built"]

\* What the code reads from its surroundings when it builds a store.
Environment == [keys |-> env, remote |-> remote, vectors |-> uuids.vectors]

\* PineconeVectorStore.similarity_search: one Document per match, the text
\* taken out of the metadata.
MatchDocument(match) ==
    LET metadata == match.metadata
    IN  [shape |-> "object",
         page_content |-> Get(metadata, "text", ""),
         metadata |-> IF "text" \in DOMAIN metadata
                      THEN [key \in DOMAIN metadata \ {"text"} |-> metadata[key]]
                      ELSE metadata]

\* A mutation of the conversion: "text" is deleted from the match's own
\* metadata (no copy is taken).
match_after_search_in_place(match) ==
    [match EXCEPT !.metadata =
        [key \in DOMAIN match.metadata \ {"text"} |-> match.metadata[key]]]

\* The match as the backend's result holds it after similarity_search:
\* "text" is deleted from metadata.copy(), the match's mapping is not
\* written to.
match_after_search(match) == match

\* A mutation of the conversion loop: the documents come out last match first.
similarity_search_reversed(matches) ==
    [n \in 1..Len(matches) |-> MatchDocument(matches[Len(matches) + 1 - n])]

similarity_search(matches) == [n \in 1..Len(matches) |-> MatchDocument(matches[n])]

\* The answers a backend can give to a top_k query on the records S: the
\* min(k, |S|) nearest records, nearest first.  Which records are nearest
\* is decided by the embeddings, so every order is possible.
Min(a, b) == IF a < b THEN a ELSE b
Rankings(S, k) ==
    {m \in [1..Min(k, Cardinality(S)) -> S] :
        \A i, j \in DOMAIN m : i # j => m[i] # m[j]}

\* retriever.invoke(query) on the active store, given the backend's answer
Retrieve(store, matches) ==
    IF store.kind = "pinecone"
    THEN similarity_search(matches)
    ELSE [n \in 1..Len(matches) |->
             [shape |-> "object", page_content |-> matches[n].page_content,
              metadata |-> matches[n].metadata]]

\* the records the active store answers from
StoreRecords(store) ==
    IF store.kind = "pinecone" THEN remote ELSE SeqToSet(store.docs)

(***************************************************************************)
(* utils.py, sidebar_components.py: tag operations                         *)
(***************************************************************************)
TagNames == {<<"a">>, <<"b">>}

\* the tag lists parse_tags can return for the upload form
UploadTagLists == {<<>>, << <<"a">> >>, << <<"a">>, <<"a">> >>, << <<"a">>, <<"b">> >>}

\* list.remove(x): removes the first occurrence
RECURSIVE list_remove(_, _)
list_remove(l, x) ==
    IF l = <<>> THEN <<>>
    ELSE IF Head(l) = x THEN Tail(l)
    ELSE <<Head(l)>> \o list_remove(Tail(l), x)

\* list(a_set): the elements once each, in an order the caller cannot choose
Orderings(S) == {l \in [1..Cardinality(S) -> S] : \A i, j \in DOMAIN l : i # j => l[i] # l[j]}

IndexOfId(docs, doc_id) ==
    IF \E i \in 1..Len(docs) : docs[i].id = doc_id
    THEN CHOOSE i \in 1..Len(docs) :
             docs[i].id = doc_id /\ \A j \in 1..(i - 1) : docs[j].id # doc_id
    ELSE 0

\* add_tags_to_document: the documents and global tags afterwards, for one
\* ordering of the merged tag set
add_tags_to_document(doc_id, new_tags, docs, global_tags, order) ==
    LET i == IndexOfId(docs, doc_id)
    IN  IF i = 0 THEN [ok |-> FALSE, documents |-> docs, tags |-> global_tags]
        ELSE [ok |-> TRUE,
              documents |-> [docs EXCEPT ![i].tags = order],
              tags |-> global_tags \cup SeqToSet(new_tags)]

\* remove_tag_from_document
remove_tag_from_document(doc_id, tag_to_remove, docs, global_tags) ==
    LET i == IndexOfId(docs, doc_id)
    IN  IF i = 0 \/ tag_to_remove \notin SeqToSet(docs[i].tags)
        THEN [ok |-> FALSE, documents |-> docs, tags |-> global_tags]
        ELSE LET docs2 == [docs EXCEPT ![i].tags = list_remove(@, tag_to_remove)]
                 tag_still_used ==
                     \E d \in 1..Len(docs2) : tag_to_remove \in SeqToSet(docs2[d].tags)
             IN  [ok |-> TRUE,
                  documents |-> docs2,
                  tags |-> IF tag_still_used THEN global_tags
                           ELSE global_tags \ {tag_to_remove}]

\* rename_tag_globally
rename_tag_globally(old_tag, new_tag, docs, global_tags) ==
    IF old_tag = new_tag
    THEN [documents |-> docs, tags |-> global_tags]
    ELSE [documents |->
              [i \in 1..Len(docs) |->
                  IF old_tag \in SeqToSet(docs[i].tags)
                  THEN [docs[i] EXCEPT !.tags = Append(list_remove(@, old_tag), new_tag)]
                  ELSE docs[i]],
          tags |-> IF old_tag \in global_tags
                   THEN (global_tags \ {old_tag}) \cup {new_tag}
                   ELSE global_tags]

(***************************************************************************)
(* chat_interface.py                                                       *)
(***************************************************************************)
UserMessages(history) == {i \in 1..Len(history) : history[i].role = "user"}

\* A mutation of process_chat_input: no except clause, a failure of the
\* retriever or of the model leaves the function as an exception.
process_chat_input_no_except(user_input, history, store, matches, service) ==
    LET asked == Append(history, [role |-> "user", content |-> user_input])
    IN  IF store = None \/ service # "ok"
        THEN [chat_history |-> asked, outcome |-> "raised", retrieved |-> <<>>]
        ELSE [chat_history |->
                  Append(asked, [role |-> "assistant", content |-> "answer",
                                 citations |->
                                     on_retriever_end_result(Retrieve(store, matches)).citations]),
              outcome |-> "answered",
              retrieved |-> Retrieve(store, matches)]

\* the citations of the assistant messages of a history, oldest first
RECURSIVE EarlierCitations(_)
EarlierCitations(history) ==
    IF history = <<>> THEN <<>>
    ELSE (IF Head(history).role = "assistant" THEN Head(history).citations ELSE <<>>)
             \o EarlierCitations(Tail(history))

\* A mutation of process_chat_input: one handler serves every question and
\* its list is never emptied.
process_chat_input_shared_handler(user_input, history, store, matches, service) ==
    LET asked == Append(history, [role |-> "user", content |-> user_input])
    IN  IF store = None
        THEN [chat_history |-> asked, outcome |-> "raised", retrieved |-> <<>>]
        ELSE IF service = "retrieval fails"
        THEN [chat_history |-> asked, outcome |-> "error", retrieved |-> <<>>]
        ELSE LET retrieved_docs == Retrieve(store, matches)
                 handler == on_retriever_end_result(retrieved_docs)
             IN  IF service = "generation fails"
                 THEN [chat_history |-> asked, outcome |-> "error",
                       retrieved |-> retrieved_docs]
                 ELSE [chat_history |->
                           Append(asked, [role |-> "assistant", content |-> "answer",
                                          citations |-> EarlierCitations(history)
                                                            \o handler.citations]),
                       outcome |-> "answered",
                       retrieved |-> retrieved_docs]

\* process_chat_input(user_input) on the active store.  matches is the
\* backend's answer and service says whether retrieval and generation
\* succeed.  Returns the chat history afterwards and what the caller sees.
process_chat_input(user_input, history, store, matches, service) ==
    LET asked == Append(history, [role |-> "user", content |-> user_input])
    IN  IF store = None
        \* st.session_state.vectorstore.as_retriever: outside the try block
        THEN [chat_history |-> asked, outcome |-> "raised", retrieved |-> <<>>]
        ELSE IF service = "retrieval fails"
        THEN [chat_history |-> asked, outcome |-> "error", retrieved |-> <<>>]
        ELSE LET retrieved_docs == Retrieve(store, matches)
                 handler == on_retriever_end_result(retrieved_docs)
             IN  IF service = "generation fails"
                 THEN [chat_history |-> asked, outcome |-> "error",
                       retrieved |-> retrieved_docs]
                 ELSE [chat_history |->
                           Append(asked, [role |-> "assistant", content |-> "answer",
                                          citations |-> handler.citations]),
                       outcome |-> "answered",
                       retrieved |-> retrieved_docs]

\* A mutation of the Send guard: only the key is looked at.
chat_disabled_key_only == "OPENAI_API_KEY" \notin env

\* chat_disabled = not openai_api_key or st.session_state.vectorstore is None
chat_disabled == "OPENAI_API_KEY" \notin env \/ vectorstore = None

(***************************************************************************)
(* The session: app.py, sidebar.py, sidebar_components.py                  *)
(***************************************************************************)
MaxUploads == 2     \* documents uploaded in one session
MaxVectors == 2     \* records the cloud index comes to hold
MaxChats == 1       \* questions asked in one session

\* initialize_session_state, before any key is entered
initialize_session_state ==
    /\ documents = <<>>
    /\ tags = {}
    /\ vectorstore = None
    /\ vectorstore_type = "chroma"
    /\ pinecone_index = ""
    /\ chat_history = <<>>
    /\ env = {}
    /\ remote = {}
    /\ uuids = [docs |-> 0, vectors |-> 0]
    /\ last = [op |-> "start", outcome |-> "none"]

CiteIdle ==
    /\ citations = <<>>
    /\ citation_sources = {}
    /\ batch = <<>>
    /\ earlier = <<>>
    /\ cite_pc = "fresh"

RoundTripIdle ==
    /\ rt_tags = <<>>
    /\ rt_str = <<>>
    /\ rt_out = <<>>
    /\ rt_pc = "idle"

QueryIdle ==
    /\ q_index = {}
    /\ q_out = [k |-> 0, status |-> "none", matches |-> <<>>, documents |-> <<>>]
    /\ q_pc = "idle"

\* no temporary file: none created, no handle on one
NoFile == [created |-> FALSE, exists |-> FALSE, open |-> FALSE, readers |-> 0,
           unlink |-> "none", unlinked_open |-> FALSE]

DocIdle ==
    /\ file_extension = ""
    /\ modules = {}
    /\ tmp = NoFile
    /\ tmp_path = None
    /\ pd_pc = "idle"

Init == initialize_session_state /\ CiteIdle /\ RoundTripIdle /\ QueryIdle /\ DocIdle

\* st.session_state.vectorstore = initialize_vectorstore(...): the caller
\* stores whatever is returned.  The embedding service and the backend may
\* refuse any chunk of the build.
FailPoints(docs) == 0..Len(build_langchain_docs(docs))

Rebuild(docs, vtype, pindex, what, ndocs) ==
    \E fail_at \in FailPoints(docs) :
        \E r \in {initialize_vectorstore(docs, vtype, pindex, Environment, fail_at)} :
            /\ r.vectors <= MaxVectors
            /\ vectorstore' = r.store
            /\ remote' = r.remote
            /\ uuids' = [docs |-> ndocs, vectors |-> r.vectors]
            /\ last' = [outcome |-> r.outcome] @@ what

\* api_settings: a key typed into the form is put into os.environ
api_settings(key) ==
    /\ UNCHANGED <<citeVars, rtVars, queryVars, docVars>>
    /\ env' = env \cup {key}
    /\ UNCHANGED <<documents, tags, vectorstore, vectorstore_type, pinecone_index,
                   chat_history, remote, uuids, last>>

\* vectorstore_settings: the radio and, for Pinecone, the index name
vectorstore_settings(vtype, pindex) ==
    /\ UNCHANGED <<citeVars, rtVars, queryVars, docVars>>
    /\ vectorstore_type' = vtype
    /\ pinecone_index' = IF vtype = "pinecone" THEN pindex ELSE pinecone_index
    /\ UNCHANGED <<documents, tags, vectorstore, chat_history, env, remote, uuids, last>>

\* vectorstore_settings, "Rebuild Vector Store"
rebuild_vector_store ==
    /\ UNCHANGED <<citeVars, rtVars, queryVars, docVars>>
    /\ documents # <<>>
    /\ Rebuild(documents, vectorstore_type, pinecone_index, [op |-> "rebuild"], uuids.docs)
    /\ UNCHANGED <<documents, tags, vectorstore_type, pinecone_index, chat_history, env>>

\* process_uploaded_document: process_document returned a document
process_uploaded_document(doc_tags, pages) ==
    /\ UNCHANGED <<citeVars, rtVars, queryVars, docVars>>
    /\ uuids.docs < MaxUploads
    /\ LET document == [id |-> DocId(uuids.docs + 1), title |-> "brief.pdf",
                        type |-> "Other", case_id |-> "", pages |-> pages,
                        tags |-> doc_tags]
           docs2 == Append(documents, document)
       IN  /\ documents' = docs2
           /\ Rebuild(docs2, vectorstore_type, pinecone_index, [op |-> "upload"], uuids.docs + 1)
    /\ UNCHANGED <<tags, vectorstore_type, pinecone_index, chat_history, env>>

\* process_uploaded_document: process_document returned None
process_uploaded_document_failed ==
    /\ UNCHANGED <<citeVars, rtVars, queryVars, docVars>>
    /\ last' = [op |-> "process_document", outcome |-> "not processed"]
    /\ UNCHANGED <<documents, tags, vectorstore, vectorstore_type, pinecone_index,
                   chat_history, env, remote, uuids>>

\* document_tag_controls, "Add Tags"
add_tags(i, new_tags) ==
    /\ UNCHANGED <<citeVars, rtVars, queryVars, docVars>>
    /\ new_tags # <<>>
    /\ \E order \in Orderings(SeqToSet(documents[i].tags) \cup SeqToSet(new_tags)) :
        LET r == add_tags_to_document(documents[i].id, new_tags, documents, tags, order)
        IN  /\ r.ok
            /\ documents' = r.documents
            /\ tags' = r.tags
            /\ Rebuild(r.documents, "chroma", "", [op |-> "add_tags"], uuids.docs)
    /\ UNCHANGED <<vectorstore_type, pinecone_index, chat_history, env>>

\* document_tag_controls, "Remove '<tag>'"
remove_tag(i, tag_to_remove) ==
    /\ UNCHANGED <<citeVars, rtVars, queryVars, docVars>>
    /\ tag_to_remove \in SeqToSet(documents[i].tags)
    /\ LET r == remove_tag_from_document(documents[i].id, tag_to_remove, documents, tags)
       IN  /\ r.ok
           /\ documents' = r.documents
           /\ tags' = r.tags
           /\ Rebuild(r.documents, "chroma", "", [op |-> "remove_tag"], uuids.docs)
    /\ UNCHANGED <<vectorstore_type, pinecone_index, chat_history, env>>

\* A mutation of remove_document: the rebuild is given the configured backend.
remove_document_configured(i) ==
    /\ UNCHANGED <<citeVars, rtVars, queryVars, docVars>>
    /\ LET docs2 == SelectSeq(documents, LAMBDA d : d.id # documents[i].id)
       IN  /\ documents' = docs2
           /\ Rebuild(docs2, vectorstore_type, pinecone_index,
                      [op |-> "remove_document", doc_id |-> documents[i].id], uuids.docs)
    /\ UNCHANGED <<tags, vectorstore_type, pinecone_index, chat_history, env>>

\* A mutation of remove_document: the index is not rebuilt.
remove_document_no_rebuild(i) ==
    /\ UNCHANGED <<citeVars, rtVars, queryVars, docVars>>
    /\ documents' = SelectSeq(documents, LAMBDA d : d.id # documents[i].id)
    /\ last' = [op |-> "remove_document", doc_id |-> documents[i].id, outcome |-> "none"]
    /\ UNCHANGED <<tags, vectorstore, vectorstore_type, pinecone_index, chat_history,
                   env, remote, uuids>>

\* remove_document(doc)
remove_document(i) ==
    /\ UNCHANGED <<citeVars, rtVars, queryVars, docVars>>
    /\ LET docs2 == SelectSeq(documents, LAMBDA d : d.id # documents[i].id)
       IN  /\ documents' = docs2
           /\ Rebuild(docs2, "chroma", "",
                      [op |-> "remove_document", doc_id |-> documents[i].id], uuids.docs)
    /\ UNCHANGED <<tags, vectorstore_type, pinecone_index, chat_history, env>>

\* tag_manager, "Rename Tag"
rename_tag(old_tag, new_tag) ==
    /\ UNCHANGED <<citeVars, rtVars, queryVars, docVars>>
    /\ old_tag \in tags
    /\ LET r == rename_tag_globally(old_tag, new_tag, documents, tags)
       IN  /\ documents' = r.documents
           /\ tags' = r.tags
           /\ Rebuild(r.documents, "chroma", "", [op |-> "rename_tag"], uuids.docs)
    /\ UNCHANGED <<vectorstore_type, pinecone_index, chat_history, env>>

\* document_list, "Clear All Documents"
clear_all_documents ==
    /\ UNCHANGED <<citeVars, rtVars, queryVars, docVars>>
    /\ documents # <<>>
    /\ documents' = <<>>
    /\ vectorstore' = None
    /\ tags' = {}
    /\ last' = [op |-> "clear_all", outcome |-> "none"]
    /\ UNCHANGED <<vectorstore_type, pinecone_index, chat_history, env, remote, uuids>>

\* the answers the backend of the active store can give
BackendAnswers ==
    IF vectorstore = None THEN {<<>>}
    ELSE Rankings(StoreRecords(vectorstore), RetrieverK)

\* build_chat_messages_panel: the user has typed a message and presses Send
build_chat_messages_panel(service) ==
    /\ UNCHANGED <<citeVars, rtVars, queryVars, docVars>>
    /\ Cardinality(UserMessages(chat_history)) < MaxChats
    /\ IF chat_disabled
       THEN /\ last' = [op |-> "chat", outcome |-> "disabled"]
            /\ UNCHANGED chat_history
       ELSE \E matches \in BackendAnswers :
               LET r == process_chat_input("question", chat_history, vectorstore,
                                           matches, service)
               IN  /\ chat_history' = r.chat_history
                   /\ last' = [op |-> "chat", outcome |-> r.outcome,
                               retrieved |-> r.retrieved]
    /\ UNCHANGED <<documents, tags, vectorstore, vectorstore_type, pinecone_index,
                   env, remote, uuids>>

\* The index life cycle: settings, uploads, removals, rebuilds and
\* questions; tags are given at upload and not edited.
Next ==
    \/ \E key \in {"OPENAI_API_KEY", "PINECONE_API_KEY"} : api_settings(key)
    \/ \E vtype \in {"chroma", "pinecone"}, pindex \in {"", "idx"} :
           vectorstore_settings(vtype, pindex)
    \/ rebuild_vector_store
    \/ \E pages \in {<<"">>, <<"short">>} :
           process_uploaded_document(<< <<"a">>, <<"b">> >>, pages)
    \/ process_uploaded_document_failed
    \/ \E i \in 1..Len(documents) : remove_document(i)
    \/ clear_all_documents
    \/ \E service \in {"ok", "retrieval fails", "generation fails"} :
           build_chat_messages_panel(service)

Spec == Init /\ [][Next]_vars

\* Document and tag management on the default (in-memory) backend.
TagNext ==
    \/ api_settings("OPENAI_API_KEY")
    \/ \E doc_tags \in UploadTagLists :
           process_uploaded_document(doc_tags, <<"short">>)
    \/ \E i \in 1..Len(documents), new_tags \in {<<t>> : t \in TagNames} :
           add_tags(i, new_tags)
    \/ \E i \in 1..Len(documents), t \in TagNames : remove_tag(i, t)
    \/ \E i \in 1..Len(documents) : remove_document(i)
    \/ \E old_tag \in TagNames, new_tag \in TagNames : rename_tag(old_tag, new_tag)
    \/ clear_all_documents

TagSpec == Init /\ [][TagNext]_vars

\* what can be typed into "New tag name": the text is used as typed, it
\* does not pass through parse_tags
TypedTagNames == {<<"b">>, <<"a", ",", "b">>}

\* Tag management of one uploaded document with the rename field taking
\* any typed text; tags given at upload and added later come from
\* parse_tags.
TypedTagNext ==
    \/ api_settings("OPENAI_API_KEY")
    \/ \E doc_tags \in {<<>>, << <<"a">> >>} :
           documents = <<>> /\ process_uploaded_document(doc_tags, <<"short">>)
    \/ \E i \in 1..Len(documents), new_tags \in {<<t>> : t \in TagNames} :
           add_tags(i, new_tags)
    \/ \E i \in 1..Len(documents) :
           \E t \in SeqToSet(documents[i].tags) : remove_tag(i, t)
    \/ \E old_tag \in tags, new_tag \in TypedTagNames : rename_tag(old_tag, new_tag)

TypedTagSpec == Init /\ [][TypedTagNext]_vars

(***************************************************************************)
(* The handler driven by arbitrary batches (CiteSpec).  The metadata       *)
(* values are the ones a retriever can hand over: the handler accepts any  *)
(* record, and the cloud index is a pre-created store whose metadata is    *)
(* not restricted to what this application wrote.                          *)
(***************************************************************************)
MetaA == [doc_id |-> "a",   page |-> 0, chunk |-> 0, source |-> "0_b", tags_str |-> <<>>]
MetaB == [doc_id |-> "a_0", page |-> 0, chunk |-> 0, source |-> "b",   tags_str |-> <<>>]
MetaC == [doc_id |-> "c",   page |-> 1, chunk |-> 0, source |-> "b",
          tags_str |-> <<"x", ",", "y">>]
MetaBare == [doc_type |-> "Other"]

RetrievedRecords ==
    {[shape |-> "object", page_content |-> t, metadata |-> m] :
        t \in {"alpha", "beta"}, m \in {MetaA, MetaC}}
    \cup {[shape |-> "object", page_content |-> "alpha", metadata |-> MetaB],
          [shape |-> "dict",   page_content |-> "alpha", metadata |-> MetaA],
          [shape |-> "dict",   page_content |-> "beta",  metadata |-> MetaBare],
          [shape |-> "object", page_content |-> "alpha", metadata |-> [py_type |-> "NoneType"]],
          [shape |-> "dict",   page_content |-> "beta",  metadata |-> [py_type |-> "list"]],
          [shape |-> "dict",   page_content |-> "beta",  metadata |-> [py_type |-> "NoneType"]],
          [shape |-> "str",    page_content |-> "alpha"],
          [shape |-> "other",  page_content |-> "beta"]}

Batches == SeqsUpTo(RetrievedRecords, MaxBatch)

\* CitationTrackingHandler.__init__
CitationTrackingHandler ==
    /\ citations = <<>>
    /\ citation_sources = {}
    /\ cite_pc = "fresh"

CiteInit ==
    /\ batch \in Batches
    /\ earlier = <<>>
    /\ CitationTrackingHandler
    /\ initialize_session_state /\ RoundTripIdle /\ QueryIdle /\ DocIdle

\* on_retriever_start: clears both fields
on_retriever_start ==
    /\ UNCHANGED <<sessionVars, rtVars, queryVars, docVars>>
    /\ citations' = <<>>
    /\ citation_sources' = {}
    /\ cite_pc' = "started"
    /\ UNCHANGED <<batch, earlier>>

\* on_retriever_end(documents)
on_retriever_end ==
    /\ UNCHANGED <<sessionVars, rtVars, queryVars, docVars>>
    /\ LET h == on_retriever_end_result(batch)
       IN  /\ citations' = h.citations
           /\ citation_sources' = h.citation_sources
           /\ cite_pc' = IF h.raised THEN "raised" ELSE "done"
    /\ UNCHANGED <<batch, earlier>>

\* on_chain_end(outputs) with outputs['source_documents'] = batch
on_chain_end ==
    IF batch # <<>>
    THEN on_retriever_end
    ELSE UNCHANGED vars

CiteNext ==
    \/ on_retriever_start
    \/ on_retriever_end
    \/ on_chain_end

CiteSpec == CiteInit /\ [][CiteNext]_vars

(***************************************************************************)
(* One handler used for several retrievals (HandlerSpec).                  *)
(***************************************************************************)
MaxRetrieved == 2   \* longest batch of a retrieval on the reused handler

HandlerRecords ==
    {[shape |-> "object", page_content |-> "alpha", metadata |-> MetaA],
     [shape |-> "str",    page_content |-> "alpha"],
     [shape |-> "object", page_content |-> "beta",  metadata |-> [py_type |-> "NoneType"]]}

HandlerInit ==
    /\ batch = <<>>
    /\ earlier = <<>>
    /\ CitationTrackingHandler
    /\ initialize_session_state /\ RoundTripIdle /\ QueryIdle /\ DocIdle

\* on_retriever_start on the handler as it is
retriever_start ==
    /\ citations' = <<>>
    /\ citation_sources' = {}
    /\ cite_pc' = "started"
    /\ UNCHANGED <<batch, earlier>>
    /\ UNCHANGED <<sessionVars, rtVars, queryVars, docVars>>

\* on_retriever_end(documents) on the handler as it is
retriever_end(docs) ==
    /\ LET h == on_retriever_end_from([citations |-> citations,
                                       citation_sources |-> citation_sources,
                                       raised |-> FALSE], docs)
       IN  /\ citations' = h.citations
           /\ citation_sources' = h.citation_sources
    /\ cite_pc' = "done"
    /\ earlier' = batch
    /\ batch' = docs
    /\ UNCHANGED <<sessionVars, rtVars, queryVars, docVars>>

\* on_chain_end(outputs) on the handler as it is
chain_end(docs) ==
    IF docs # <<>>
    THEN retriever_end(docs)
    ELSE UNCHANGED vars

HandlerNext ==
    \/ retriever_start
    \/ \E docs \in SeqsUpTo(HandlerRecords, MaxRetrieved) : retriever_end(docs)
    \/ \E docs \in SeqsUpTo(HandlerRecords, MaxRetrieved) : chain_end(docs)

HandlerSpec == HandlerInit /\ [][HandlerNext]_vars

(***************************************************************************)
(* The tag list of a document on its way into the chunk metadata and back  *)
(* out into a citation (RoundTripSpec).                                    *)
(***************************************************************************)
\* tags as sequences of characters: empty, plain, blank, with a comma
RoundTripTags ==
    {<<>>, <<"a">>, <<"b">>, <<"a", "b">>, <<" ">>, <<",">>, <<"a", ",", "b">>}

RoundTripInit ==
    /\ rt_tags \in SeqsUpTo(RoundTripTags, MaxTagList)
    /\ rt_str = <<>>
    /\ rt_out = <<>>
    /\ rt_pc = "idle"
    /\ initialize_session_state /\ CiteIdle /\ QueryIdle /\ DocIdle

\* initialize_vectorstore: "tags_str": ",".join(tags_list) in the metadata of
\* a chunk of a document with these tags
encode_tags ==
    /\ rt_pc = "idle"
    /\ LET doc == [id |-> DocId(1), title |-> "brief.pdf", type |-> "Other",
                   case_id |-> "", pages |-> <<"short">>, tags |-> rt_tags]
       IN  rt_str' = ChunkDocument(doc, 0, 0, "short").metadata.tags_str
    /\ rt_pc' = "encoded"
    /\ UNCHANGED <<rt_tags, rt_out>>
    /\ UNCHANGED <<sessionVars, citeVars, queryVars, docVars>>

\* on_retriever_end: the tags of the citation built from that metadata
decode_tags ==
    /\ rt_pc = "encoded"
    /\ rt_out' = MetadataCitation("short", [tags_str |-> rt_str]).tags
    /\ rt_pc' = "decoded"
    /\ UNCHANGED <<rt_tags, rt_str>>
    /\ UNCHANGED <<sessionVars, citeVars, queryVars, docVars>>

RoundTripNext ==
    \/ encode_tags
    \/ decode_tags

RoundTripSpec == RoundTripInit /\ [][RoundTripNext]_vars

(***************************************************************************)
(* One similarity query on the cloud store (QuerySpec).                    *)
(***************************************************************************)
MaxK == 3           \* largest limit passed to similarity_search

\* records an index can hold: chunks written by _upload_documents and a
\* record whose metadata has no "text"
IndexRecords ==
    {[id |-> VectorId(n),
      metadata |-> [source |-> "brief.pdf", doc_id |-> DocId(1), doc_type |-> "Other",
                    case_id |-> "", tags_str |-> <<>>, page |-> 0, chunk |-> n,
                    text |-> Slice("long", n, n + 1)]] : n \in 0..2}
    \cup {[id |-> VectorId(3), metadata |-> [source |-> "other"]]}

QueryInit ==
    /\ q_index \in SUBSET IndexRecords
    /\ q_out = [k |-> 0, status |-> "none", matches |-> <<>>, documents |-> <<>>]
    /\ q_pc = "idle"
    /\ initialize_session_state /\ CiteIdle /\ RoundTripIdle /\ DocIdle

\* similarity_search(query, k): the backend answers with matches
similarity_search_call(k) ==
    /\ q_pc = "idle"
    /\ \E matches \in Rankings(q_index, k) :
           q_out' = [k |-> k, status |-> "ok", matches |-> matches,
                     documents |-> similarity_search(matches),
                     after |-> [n \in 1..Len(matches) |-> match_after_search(matches[n])]]
    /\ q_pc' = "done"
    /\ UNCHANGED q_index
    /\ UNCHANGED <<sessionVars, citeVars, rtVars, docVars>>

\* similarity_search(query, k): embed_query or index.query raises
similarity_search_raises(k) ==
    /\ q_pc = "idle"
    /\ q_out' = [k |-> k, status |-> "raised", matches |-> <<>>, documents |-> <<>>,
                 after |-> <<>>]
    /\ q_pc' = "done"
    /\ UNCHANGED q_index
    /\ UNCHANGED <<sessionVars, citeVars, rtVars, docVars>>

\* PineconeRetriever.get_relevant_documents: k from search_kwargs
get_relevant_documents ==
    \/ similarity_search_call(RetrieverK)
    \/ similarity_search_raises(RetrieverK)

QueryNext ==
    \/ \E k \in 1..MaxK : similarity_search_call(k)
    \/ \E k \in 1..MaxK : similarity_search_raises(k)
    \/ get_relevant_documents

QuerySpec == QueryInit /\ [][QueryNext]_vars

(***************************************************************************)
(* vector_store.py: initialize_vectorstore on any document list, under any *)
(* configuration, followed by one retrieval.                               *)
(***************************************************************************)
MaxDocs == 2        \* longest document list handed to initialize_vectorstore

\* documents a list can hold: complete ones, a second with the id of the
\* first, one without an id, a value that is no dict, a dict without pages
BuildDocuments ==
    {[id |-> "d1", title |-> "brief.pdf", type |-> "Other", case_id |-> "",
      tags |-> << <<"a">> >>, pages |-> <<"long">>],
     [id |-> "d2", title |-> "memo.pdf", type |-> "Other", case_id |-> "",
      tags |-> <<>>, pages |-> <<"short">>],
     [id |-> "d1", title |-> "copy.pdf", type |-> "Other", case_id |-> "",
      tags |-> <<>>, pages |-> <<"short">>],
     [title |-> "loose.pdf", pages |-> <<"short">>],
     [py_type |-> "str"],
     [id |-> "d3", title |-> "empty.pdf"]}

AllKeys == {"OPENAI_API_KEY", "PINECONE_API_KEY"}

BuildInit ==
    /\ documents \in SeqsUpTo(BuildDocuments, MaxDocs)
    /\ env \in SUBSET AllKeys
    /\ vectorstore_type \in {"chroma", "pinecone"}
    /\ pinecone_index \in {"", "idx"}
    /\ tags = {}
    /\ vectorstore = None
    /\ chat_history = <<>>
    /\ remote = {}
    /\ uuids = [docs |-> 0, vectors |-> 0]
    /\ last = [op |-> "start", outcome |-> "none"]
    /\ CiteIdle /\ RoundTripIdle /\ QueryIdle /\ DocIdle

\* vectorstore = initialize_vectorstore(documents, vectorstore_type=...,
\* pinecone_index=...)
build_vectorstore(fail_at) ==
    /\ last.op = "start"
    /\ \E r \in {initialize_vectorstore(documents, vectorstore_type, pinecone_index,
                                         Environment, fail_at)} :
          /\ vectorstore' = r.store
          /\ remote' = r.remote
          /\ uuids' = [uuids EXCEPT !.vectors = r.vectors]
          /\ last' = [op |-> "initialize_vectorstore", outcome |-> r.outcome,
                      caught |-> r.caught, raises |-> r.raises]
    /\ UNCHANGED <<documents, tags, vectorstore_type, pinecone_index, chat_history, env>>
    /\ UNCHANGED <<citeVars, rtVars, queryVars, docVars>>

\* the backend's matches for a ranking given as the positions of the chunks
\* in the order they were built
MatchesAt(store, rem, positions) ==
    [n \in DOMAIN positions |->
        IF store.kind = "pinecone"
        THEN CHOOSE match \in rem : match.id = VectorId(positions[n])
        ELSE store.docs[positions[n]]]

\* vectorstore.as_retriever(search_kwargs={"k": k}).invoke(query)
retrieve(k, positions) ==
    /\ last.op = "initialize_vectorstore"
    /\ last.outcome = "built"
    /\ q_pc = "idle"
    /\ q_pc' = "retrieved"
    /\ q_out' = [k |-> k, positions |-> positions,
                 documents |-> Retrieve(vectorstore,
                                        MatchesAt(vectorstore, remote, positions))]
    /\ UNCHANGED <<sessionVars, citeVars, rtVars, q_index, docVars>>

BuildNext ==
    \/ \E fail_at \in FailPoints(documents) : build_vectorstore(fail_at)
    \/ \E k \in 1..MaxK :
          \E positions \in Rankings(1..Len(build_langchain_docs(documents)), k) :
             retrieve(k, positions)

BuildSpec == BuildInit /\ [][BuildNext]_vars

(***************************************************************************)
(* document_processing.py: one call of process_document, step by step.     *)
(* tmp.open is the handle of the with block, tmp.readers the handles       *)
(* PyMuPDF holds, tmp.unlink the outcome of os.unlink.                     *)
(***************************************************************************)
Extensions == {".pdf", ".docx", ".txt", ".png", ".xyz"}
Supported == {".pdf", ".docx", ".txt", ".png"}
OcrModules == {"fitz", "pdf2image"}
UnlinkOutcomes == {"ok", "PermissionError", "Exception"}

DocInit ==
    /\ file_extension \in Extensions
    /\ modules \in SUBSET OcrModules
    /\ tmp = NoFile
    /\ tmp_path = None
    /\ pd_pc = "start"
    /\ initialize_session_state /\ CiteIdle /\ RoundTripIdle /\ QueryIdle

\* safely_delete_temp_file(tmp_path) when os.unlink ends with outcome
safely_delete_temp_file(file, path, outcome) ==
    IF path = None \/ ~file.exists THEN file
    ELSE IF outcome = "ok"
         THEN [file EXCEPT !.exists = FALSE, !.unlink = "ok",
                           !.unlinked_open = file.open \/ file.readers > 0]
         ELSE [file EXCEPT !.unlink = outcome]

\* with tempfile.NamedTemporaryFile(delete=False, suffix=...) as tmp:
NamedTemporaryFile ==
    /\ pd_pc = "start"
    /\ tmp' = [tmp EXCEPT !.created = TRUE, !.exists = TRUE, !.open = TRUE]
    /\ pd_pc' = "with"
    /\ UNCHANGED <<file_extension, modules, tmp_path>>
    /\ UNCHANGED <<sessionVars, citeVars, rtVars, queryVars>>

\* the file cannot be created: no file, the except clause runs
NamedTemporaryFile_raises ==
    /\ pd_pc = "start"
    /\ pd_pc' = "except"
    /\ UNCHANGED <<file_extension, modules, tmp, tmp_path>>
    /\ UNCHANGED <<sessionVars, citeVars, rtVars, queryVars>>

\* tmp.write(file.getvalue()); tmp_path = tmp.name
tmp_write ==
    /\ pd_pc = "with"
    /\ tmp_path' = [name |-> "tmp"]
    /\ pd_pc' = "named"
    /\ UNCHANGED <<file_extension, modules, tmp>>
    /\ UNCHANGED <<sessionVars, citeVars, rtVars, queryVars>>

\* tmp.write raises: the with block closes the file, tmp_path is not yet
\* assigned
tmp_write_raises ==
    /\ pd_pc = "with"
    /\ tmp' = [tmp EXCEPT !.open = FALSE]
    /\ pd_pc' = "except"
    /\ UNCHANGED <<file_extension, modules, tmp_path>>
    /\ UNCHANGED <<sessionVars, citeVars, rtVars, queryVars>>

\* tmp.flush(); os.fsync(tmp.fileno()); the with block ends, by its last
\* statement or by an exception of one of the two
flush_fsync(raises) ==
    /\ pd_pc = "named"
    /\ tmp' = [tmp EXCEPT !.open = FALSE]
    /\ pd_pc' = IF raises THEN "except" ELSE "closed"
    /\ UNCHANGED <<file_extension, modules, tmp_path>>
    /\ UNCHANGED <<sessionVars, citeVars, rtVars, queryVars>>

\* another process removes the file from the temporary directory
file_removed ==
    /\ pd_pc = "closed"
    /\ tmp.exists
    /\ tmp' = [tmp EXCEPT !.exists = FALSE]
    /\ UNCHANGED <<file_extension, modules, tmp_path, pd_pc>>
    /\ UNCHANGED <<sessionVars, citeVars, rtVars, queryVars>>

\* if not os.path.exists(tmp_path): return None
exists_check ==
    /\ pd_pc = "closed"
    /\ pd_pc' = IF tmp.exists THEN "loading" ELSE "returned_None"
    /\ UNCHANGED <<file_extension, modules, tmp, tmp_path>>
    /\ UNCHANGED <<sessionVars, citeVars, rtVars, queryVars>>

\* the loader of the extension reads the file (for an image, the OCR of
\* extract_text_from_image)
load ==
    /\ pd_pc = "loading"
    /\ file_extension \in Supported
    /\ pd_pc' = IF file_extension = ".pdf" THEN "ocr" ELSE "cleanup"
    /\ UNCHANGED <<file_extension, modules, tmp, tmp_path>>
    /\ UNCHANGED <<sessionVars, citeVars, rtVars, queryVars>>

load_raises ==
    /\ pd_pc = "loading"
    /\ file_extension \in Supported
    /\ pd_pc' = "except"
    /\ UNCHANGED <<file_extension, modules, tmp, tmp_path>>
    /\ UNCHANGED <<sessionVars, citeVars, rtVars, queryVars>>

\* else: st.error("Unsupported file format"); safely_delete_temp_file;
\* return None
unsupported_format(outcome) ==
    /\ pd_pc = "loading"
    /\ file_extension \notin Supported
    /\ tmp' = safely_delete_temp_file(tmp, tmp_path, outcome)
    /\ pd_pc' = "returned_None"
    /\ UNCHANGED <<file_extension, modules, tmp_path>>
    /\ UNCHANGED <<sessionVars, citeVars, rtVars, queryVars>>

\* pdf_document = fitz.open(tmp_path)
fitz_open ==
    /\ pd_pc = "ocr"
    /\ "fitz" \in modules
    /\ tmp' = [tmp EXCEPT !.readers = @ + 1]
    /\ pd_pc' = "fitz"
    /\ UNCHANGED <<file_extension, modules, tmp_path>>
    /\ UNCHANGED <<sessionVars, citeVars, rtVars, queryVars>>

\* fitz.open raises: except Exception warns, no document was opened
fitz_open_raises ==
    /\ pd_pc = "ocr"
    /\ "fitz" \in modules
    /\ pd_pc' = "cleanup"
    /\ UNCHANGED <<file_extension, modules, tmp, tmp_path>>
    /\ UNCHANGED <<sessionVars, citeVars, rtVars, queryVars>>

\* the page loop ends and pdf_document.close() runs
fitz_ocr ==
    /\ pd_pc = "fitz"
    /\ tmp' = [tmp EXCEPT !.readers = @ - 1]
    /\ pd_pc' = "cleanup"
    /\ UNCHANGED <<file_extension, modules, tmp_path>>
    /\ UNCHANGED <<sessionVars, citeVars, rtVars, queryVars>>

\* rendering or OCR of a page raises: except Exception warns, close() is
\* not reached
fitz_ocr_raises ==
    /\ pd_pc = "fitz"
    /\ pd_pc' = "cleanup"
    /\ UNCHANGED <<file_extension, modules, tmp, tmp_path>>
    /\ UNCHANGED <<sessionVars, citeVars, rtVars, queryVars>>

\* except ImportError: convert_from_path if pdf2image can be imported,
\* else a warning; an exception of the fallback is caught and warned about
fallback_ocr ==
    /\ pd_pc = "ocr"
    /\ "fitz" \notin modules
    /\ pd_pc' = "cleanup"
    /\ UNCHANGED <<file_extension, modules, tmp, tmp_path>>
    /\ UNCHANGED <<sessionVars, citeVars, rtVars, queryVars>>

\* safely_delete_temp_file(tmp_path); ...; return document
cleanup_and_return(outcome) ==
    /\ pd_pc = "cleanup"
    /\ tmp' = safely_delete_temp_file(tmp, tmp_path, outcome)
    /\ pd_pc' = "returned_document"
    /\ UNCHANGED <<file_extension, modules, tmp_path>>
    /\ UNCHANGED <<sessionVars, citeVars, rtVars, queryVars>>

\* except Exception: if tmp_path: safely_delete_temp_file(tmp_path);
\* return None
except_Exception(outcome) ==
    /\ pd_pc = "except"
    /\ tmp' = IF tmp_path # None
              THEN safely_delete_temp_file(tmp, tmp_path, outcome)
              ELSE tmp
    /\ pd_pc' = "returned_None"
    /\ UNCHANGED <<file_extension, modules, tmp_path>>
    /\ UNCHANGED <<sessionVars, citeVars, rtVars, queryVars>>

DocNext ==
    \/ NamedTemporaryFile
    \/ NamedTemporaryFile_raises
    \/ tmp_write
    \/ tmp_write_raises
    \/ \E raises \in BOOLEAN : flush_fsync(raises)
    \/ file_removed
    \/ exists_check
    \/ load
    \/ load_raises
    \/ \E outcome \in UnlinkOutcomes : unsupported_format(outcome)
    \/ fitz_open
    \/ fitz_open_raises
    \/ fitz_ocr
    \/ fitz_ocr_raises
    \/ fallback_ocr
    \/ \E outcome \in UnlinkOutcomes : cleanup_and_return(outcome)
    \/ \E outcome \in UnlinkOutcomes : except_Exception(outcome)

DocSpec == DocInit /\ [][DocNext]_vars

(***************************************************************************)
(* One uploaded document with a page of 1500 characters: the index is      *)
(* built and rebuilt from it under either backend, and queried with k = 5.  *)
(***************************************************************************)
MaxIndexed == 4     \* records the cloud index comes to hold in the scenario

ScenarioDocument ==
    [id |-> DocId(1), title |-> "brief.pdf", type |-> "Other", case_id |-> "",
     pages |-> <<"long">>, tags |-> <<>>]

ScenarioInit ==
    /\ documents = <<ScenarioDocument>>
    /\ tags = {}
    /\ vectorstore = None
    /\ vectorstore_type \in {"chroma", "pinecone"}
    /\ pinecone_index = "idx"
    /\ chat_history = <<>>
    /\ env = AllKeys
    /\ remote = {}
    /\ uuids = [docs |-> 1, vectors |-> 0]
    /\ last = [op |-> "start", outcome |-> "none"]
    /\ CiteIdle /\ RoundTripIdle /\ QueryIdle /\ DocIdle

\* "Rebuild Vector Store" (and the build at upload): the index is built from
\* the document list with the configured backend and stored
build_from_document(fail_at) ==
    /\ \E r \in {initialize_vectorstore(documents, vectorstore_type, pinecone_index,
                                         Environment, fail_at)} :
          /\ r.vectors <= MaxIndexed
          /\ vectorstore' = r.store
          /\ remote' = r.remote
          /\ uuids' = [uuids EXCEPT !.vectors = r.vectors]
          /\ last' = [op |-> "rebuild", outcome |-> r.outcome]
    /\ UNCHANGED <<documents, tags, vectorstore_type, pinecone_index, chat_history, env>>
    /\ UNCHANGED <<citeVars, rtVars, queryVars, docVars>>

\* retriever.invoke(query) with search_kwargs={"k": 5} on the active index
query_index(matches) ==
    /\ vectorstore # None
    /\ q_out' = [k |-> RetrieverK, matches |-> matches,
                 documents |-> Retrieve(vectorstore, matches)]
    /\ q_pc' = "retrieved"
    /\ UNCHANGED <<sessionVars, citeVars, rtVars, docVars, q_index>>

ScenarioNext ==
    \/ \E vtype \in {"chroma", "pinecone"} : vectorstore_settings(vtype, "idx")
    \/ \E fail_at \in FailPoints(documents) : build_from_document(fail_at)
    \/ \E matches \in BackendAnswers : query_index(matches)

ScenarioSpec == ScenarioInit /\ [][ScenarioNext]_vars

(***************************************************************************)
(* vector_store.py: one upload of N chunks to the cloud index.             *)
(***************************************************************************)
MaxChunks == 201    \* most chunks of one upload

\* a document of n pages, one chunk each
PagedDocument(n) ==
    [id |-> DocId(1), title |-> "brief.pdf", type |-> "Other", case_id |-> "",
     pages |-> [p \in 1..n |-> "short"], tags |-> <<>>]

UploadInit ==
    /\ documents \in {<<PagedDocument(n)>> : n \in 0..MaxChunks}
    /\ tags = {}
    /\ vectorstore = None
    /\ vectorstore_type = "pinecone"
    /\ pinecone_index = "idx"
    /\ chat_history = <<>>
    /\ env = AllKeys
    /\ remote = {}
    /\ uuids = [docs |-> 1, vectors |-> 0]
    /\ last = [op |-> "start", outcome |-> "none"]
    /\ CiteIdle /\ RoundTripIdle /\ QueryIdle /\ DocIdle

\* the chunks the service may refuse: none (0), or the first or the last
\* chunk of a batch
RefusedChunks(n) ==
    {0} \cup {c \in 1..n : c % batch_size \in {0, 1} \/ c = n}

\* PineconeVectorStore(langchain_docs, embeddings, pinecone_index) called by
\* initialize_vectorstore: the chunks are uploaded batch by batch
upload_documents(fail_at) ==
    /\ last.op = "start"
    /\ \E r \in {initialize_vectorstore(documents, vectorstore_type, pinecone_index,
                                         Environment, fail_at)} :
          /\ vectorstore' = r.store
          /\ remote' = r.remote
          /\ uuids' = [uuids EXCEPT !.vectors = r.vectors]
          /\ last' = [op |-> "_upload_documents", outcome |-> r.outcome,
                      requests |-> upsert_requests(build_langchain_docs(documents), 0,
                                                   fail_at, uuids.vectors)]
    /\ UNCHANGED <<documents, tags, vectorstore_type, pinecone_index, chat_history, env>>
    /\ UNCHANGED <<citeVars, rtVars, queryVars, docVars>>

UploadNext ==
    \E fail_at \in RefusedChunks(Len(build_langchain_docs(documents))) :
        upload_documents(fail_at)

UploadSpec == UploadInit /\ [][UploadNext]_vars

(***************************************************************************)
(* chat_interface.py, document_context.py: a conversation on one index.    *)
(***************************************************************************)
MaxQuestions == 2   \* questions in the chat history at one time
MaxPages == 6       \* pages (one chunk each) of the indexed document

Questions == {"q1", "q2"}

ConversationDocument == PagedDocument(MaxPages)

\* the session after the document was uploaded and indexed
ConversationInit ==
    /\ documents = <<ConversationDocument>>
    /\ tags = {}
    /\ vectorstore_type \in {"chroma", "pinecone"}
    /\ pinecone_index = "idx"
    /\ chat_history = <<>>
    /\ env = AllKeys
    /\ LET r == initialize_vectorstore(<<ConversationDocument>>, vectorstore_type, "idx",
                                       [keys |-> AllKeys, remote |-> {}, vectors |-> 0], 0)
       IN  /\ vectorstore = r.store
           /\ remote = r.remote
           /\ uuids = [docs |-> 1, vectors |-> r.vectors]
    /\ last = [op |-> "start", outcome |-> "none"]
    /\ CiteIdle /\ RoundTripIdle /\ QueryIdle /\ DocIdle

\* The answers of the backend considered in a conversation: the k records
\* that follow some page of the document, in page order around the end.
NearestAnswers ==
    LET S == StoreRecords(vectorstore)
        n == Cardinality(S)
        at(p) == CHOOSE r \in S : r.metadata.page = p % n
    IN  {[i \in 1..Min(RetrieverK, n) |-> at(first + i - 1)] : first \in 0..(n - 1)}

\* Send pressed with a message typed
send_button(user_input, service) ==
    /\ UNCHANGED <<citeVars, rtVars, queryVars, docVars>>
    /\ Cardinality(UserMessages(chat_history)) < MaxQuestions
    /\ ~chat_disabled
    /\ \E matches \in NearestAnswers :
          LET r == process_chat_input(user_input, chat_history, vectorstore,
                                      matches, service)
          IN  /\ chat_history' = r.chat_history
              /\ last' = [op |-> "chat", outcome |-> r.outcome,
                          retrieved |-> r.retrieved, question |-> user_input]
    /\ UNCHANGED <<documents, tags, vectorstore, vectorstore_type, pinecone_index,
                   env, remote, uuids>>

\* "Clear Chat History"
clear_chat_history ==
    /\ UNCHANGED <<citeVars, rtVars, queryVars, docVars>>
    /\ chat_history' = <<>>
    /\ last' = [op |-> "clear_chat", outcome |-> "none"]
    /\ UNCHANGED <<documents, tags, vectorstore, vectorstore_type, pinecone_index,
                   env, remote, uuids>>

ConversationNext ==
    \/ \E user_input \in Questions,
          service \in {"ok", "retrieval fails", "generation fails"} :
           send_button(user_input, service)
    \/ clear_chat_history

ConversationSpec == ConversationInit /\ [][ConversationNext]_vars

(***************************************************************************)
(* Properties of the handler.                                              *)
(***************************************************************************)
KeyFields == {"doc_id", "page", "chunk", "source"}

\* the record has metadata that carries the four key fields
CarriesKey(r) ==
    /\ r.shape \in {"object", "dict"}
    /\ IsMapping(r.metadata)
    /\ KeyFields \subseteq DOMAIN r.metadata

KeyTuple(r) ==
    <<r.metadata.doc_id, r.metadata.page, r.metadata.chunk, r.metadata.source>>

CitationTuple(c) == <<c.doc_id, c.page, c.chunk, c.source>>

CitationsOfTuple(t) == {n \in 1..Len(citations) : CitationTuple(citations[n]) = t}

\* the record's processing raises
Fails(r) == r.shape \in {"object", "dict"} /\ ~IsMapping(r.metadata)

\* the key under which the handler files the record
RecordKey(r) ==
    CASE Fails(r)          -> "error_" \o AttributeError(r.metadata)
      [] r.shape = "str"   -> "string_" \o ToString(Hash(r.page_content))
      [] r.shape = "other" -> "unknown_" \o ToString(Hash(r.page_content))
      [] OTHER             -> MetadataKey(r.metadata)

\* C1: when two records of a batch carry the same (doc_id, page, chunk,
\* source), the citations list holds exactly one citation of that tuple, and
\* it is the citation of the first record of the batch with that tuple.
C1_OneCitationPerKeyTuple ==
    cite_pc = "done" =>
        \A i, j \in 1..Len(batch) :
            (i < j /\ CarriesKey(batch[i]) /\ CarriesKey(batch[j])
                   /\ KeyTuple(batch[i]) = KeyTuple(batch[j])) =>
                LET t == KeyTuple(batch[i])
                    f == CHOOSE k \in 1..Len(batch) :
                            /\ CarriesKey(batch[k]) /\ KeyTuple(batch[k]) = t
                            /\ \A l \in 1..(k - 1) :
                                   ~(CarriesKey(batch[l]) /\ KeyTuple(batch[l]) = t)
                IN  /\ Cardinality(CitationsOfTuple(t)) = 1
                    /\ \A n \in CitationsOfTuple(t) :
                           citations[n].text = batch[f].page_content

\* C2: two records of a batch whose (doc_id, page, chunk, source) tuples
\* differ in at least one component are each cited, identical text or not.
C2_DistinctTuplesBothCited ==
    cite_pc = "done" =>
        \A i, j \in 1..Len(batch) :
            (CarriesKey(batch[i]) /\ CarriesKey(batch[j])
                   /\ KeyTuple(batch[i]) # KeyTuple(batch[j])) =>
                /\ CitationsOfTuple(KeyTuple(batch[i])) # {}
                /\ CitationsOfTuple(KeyTuple(batch[j])) # {}

\* C10: a record whose processing fails does not make the call raise; the
\* citations hold a citation with source "Error" carrying the failure's
\* message, and every later record is still processed: its key is in the
\* seen set, and unless an earlier record had the same key it is cited.
C10_FailureBecomesErrorCitation ==
    /\ cite_pc # "raised"
    /\ cite_pc = "done" =>
        \A i \in 1..Len(batch) :
            Fails(batch[i]) =>
                /\ \E n \in 1..Len(citations) :
                       /\ citations[n].source = "Error"
                       /\ citations[n].text =
                              "[Error processing document: "
                                  \o AttributeError(batch[i].metadata) \o "]"
                /\ \A j \in (i + 1)..Len(batch) :
                       /\ RecordKey(batch[j]) \in citation_sources
                       /\ (\A k \in 1..(j - 1) : RecordKey(batch[k]) # RecordKey(batch[j]))
                            => \E n \in 1..Len(citations) :
                                   /\ Fails(batch[j]) => citations[n].source = "Error"
                                   /\ ~Fails(batch[j]) =>
                                        /\ citations[n].text = batch[j].page_content
                                        /\ citations[n].source # "Error"

\* a failing record followed by a well-formed one, both cited in order
C10_Witness ==
    /\ cite_pc = "done"
    /\ Len(batch) >= 2
    /\ Fails(batch[1])
    /\ CarriesKey(batch[2])
    /\ Len(citations) >= 2
    /\ citations[1].source = "Error"
    /\ CitationTuple(citations[2]) = KeyTuple(batch[2])

\* the messages of the failures of the batch
FailureMessages == {AttributeError(batch[i].metadata) : i \in {j \in 1..Len(batch) : Fails(batch[j])}}

\* the positions of the citations list that hold an error citation
ErrorCitations == {n \in 1..Len(citations) : citations[n].source = "Error"}

\* C29: within one batch the error citations are deduplicated by message:
\* each message of a failure has exactly one error citation, however many
\* records failed with it, and there is no other error citation.
C29_OneErrorCitationPerMessage ==
    cite_pc = "done" =>
        /\ \A e \in FailureMessages :
               Cardinality({n \in ErrorCitations : citations[n] = ErrorCitation(e)}) = 1
        /\ Cardinality(ErrorCitations) = Cardinality(FailureMessages)

\* two different records failing with one message and a third failing with
\* another: two error citations
C29_Witness ==
    /\ cite_pc = "done"
    /\ Len(batch) = 3
    /\ \A i \in 1..3 : Fails(batch[i])
    /\ batch[1] # batch[2]
    /\ AttributeError(batch[1].metadata) = AttributeError(batch[2].metadata)
    /\ AttributeError(batch[3].metadata) # AttributeError(batch[1].metadata)
    /\ Len(citations) = 2

\* the positions of the batch whose record is the first one of its key
FirstOfKey ==
    {i \in 1..Len(batch) :
        \A j \in 1..(i - 1) : RecordKey(batch[j]) # RecordKey(batch[i])}

\* the n-th such position, counting in retrieval order
NthFirst(n) ==
    CHOOSE i \in FirstOfKey : Cardinality({j \in FirstOfKey : j <= i}) = n

\* the citation a record gets when it is cited
CitationOf(r) ==
    CASE Fails(r)                  -> ErrorCitation(AttributeError(r.metadata))
      [] r.shape \in {"str", "other"} -> UnknownCitation(r.page_content)
      [] OTHER                     -> MetadataCitation(r.page_content, r.metadata)

\* C11: the citations list is the retrieved batch cut down to the first
\* record of each key, in retrieval order: the n-th citation is the citation
\* of the n-th such record.
C11_CitationsKeepRetrievalOrder ==
    cite_pc = "done" =>
        /\ Len(citations) = Cardinality(FirstOfKey)
        /\ \A n \in 1..Len(citations) : citations[n] = CitationOf(batch[NthFirst(n)])

\* three records, the second a duplicate of the first, the third cited after it
C11_Witness ==
    /\ cite_pc = "done"
    /\ Len(batch) = 3
    /\ RecordKey(batch[1]) = RecordKey(batch[2])
    /\ RecordKey(batch[3]) # RecordKey(batch[1])
    /\ Len(citations) = 2
    /\ citations[1] # citations[2]
    /\ citations[2] = CitationOf(batch[3])

\* the value is the string "Unknown" (page and chunk may be integers)
IsUnknown(v) == ToString(v) = ToString("Unknown")

\* the citations filed under the key of record i of the batch
CitationsOfRecord(i) ==
    {n \in 1..Len(citations) : RecordKey(batch[NthFirst(n)]) = RecordKey(batch[i])}

\* C13 as stated: a bare string is cited with its text and with source,
\* doc_id, doc_type, case_id, page and chunk all "Unknown".
C13_BareStringAllUnknown ==
    cite_pc = "done" =>
        \A i \in 1..Len(batch) :
            batch[i].shape = "str" =>
                /\ CitationsOfRecord(i) # {}
                /\ \A n \in CitationsOfRecord(i) :
                       /\ citations[n].text = batch[i].page_content
                       /\ \A field \in {"source", "doc_id", "doc_type", "case_id",
                                         "page", "chunk"} :
                              IsUnknown(citations[n][field])

\* C13 as the code has it: a bare string is cited with its text, with
\* source, doc_id, doc_type and case_id "Unknown", and with page 0 and
\* chunk 0.
C13_BareStringUnknownAndZero ==
    cite_pc = "done" =>
        \A i \in 1..Len(batch) :
            batch[i].shape = "str" =>
                /\ CitationsOfRecord(i) # {}
                /\ \A n \in CitationsOfRecord(i) :
                       /\ citations[n].text = batch[i].page_content
                       /\ \A field \in {"source", "doc_id", "doc_type", "case_id"} :
                              IsUnknown(citations[n][field])
                       /\ citations[n].page = 0
                       /\ citations[n].chunk = 0

\* a bare string retrieved after a record with metadata, and cited
C13_Witness ==
    /\ cite_pc = "done"
    /\ Len(batch) >= 2
    /\ CarriesKey(batch[1])
    /\ batch[2].shape = "str"
    /\ Len(citations) >= 2
    /\ citations[2].text = batch[2].page_content
    /\ citations[2].source = "Unknown"

\* C12: whatever was called on the handler before, after
\* on_retriever_end(batch) the seen set holds the keys of batch only and the
\* citations are those of batch only: the first record of each key is
\* cited, also when an earlier retrieval cited it, and nothing of an
\* earlier retrieval is left.
C12_RetrievalStartsFromEmpty ==
    cite_pc = "done" =>
        /\ citation_sources = {RecordKey(batch[i]) : i \in 1..Len(batch)}
        /\ Len(citations) = Cardinality(FirstOfKey)
        /\ \A i \in FirstOfKey : \E n \in 1..Len(citations) :
               citations[n] = CitationOf(batch[i])
        /\ \A n \in 1..Len(citations) : \E i \in 1..Len(batch) :
               citations[n] = CitationOf(batch[i])

\* a second retrieval that brings back a record of the first one and not
\* another
C12_Witness ==
    /\ cite_pc = "done"
    /\ \E i \in 1..Len(earlier) : \E j \in 1..Len(batch) : earlier[i] = batch[j]
    /\ \E i \in 1..Len(earlier) : \A j \in 1..Len(batch) :
           RecordKey(earlier[i]) # RecordKey(batch[j])
    /\ Len(citations) = Len(batch)

(***************************************************************************)
(* Properties of the index life cycle.                                     *)
(***************************************************************************)
\* the operations that end with st.session_state.vectorstore = initialize_vectorstore(...)
RebuildOps == {"upload", "rebuild", "add_tags", "remove_tag", "remove_document",
               "rename_tag"}

\* C3: after a rebuild that succeeded, the records the active index answers
\* from are exactly the chunks built from the document list, each once: no
\* chunk of an earlier build is left and none is stored twice, on either
\* backend.
C3_RebuildIndexesExactlyDocuments ==
    (last.op \in RebuildOps /\ last.outcome = "built") =>
        LET built  == build_langchain_docs(documents)
            stored == StoreRecords(vectorstore)
        IN  /\ {r.metadata : r \in stored} = {built[n].metadata : n \in 1..Len(built)}
            /\ Cardinality(stored) = Len(built)

\* the step is one of the operations that rebuild the index
IsRebuildStep ==
    /\ last'.op \in RebuildOps
    /\ <<documents, vectorstore, remote, uuids, last>>'
           # <<documents, vectorstore, remote, uuids, last>>

\* C14: every rebuild that builds an index, whatever triggers it, builds it
\* on the backend type selected in the configuration at that moment and,
\* for the cloud backend, in the index named there.
C14_RebuildUsesConfiguration ==
    [][(IsRebuildStep /\ last'.outcome = "built") =>
          /\ vectorstore'.kind = vectorstore_type
          /\ vectorstore_type = "pinecone" =>
                 vectorstore'.index_name = pinecone_index]_vars

\* the records a store reference answers from when the cloud index holds rem
StoreRecordsIn(store, rem) ==
    IF store.kind = "pinecone" THEN rem ELSE SeqToSet(store.docs)

\* C15: a rebuild builds the new index apart from the active one: the
\* records read through the reference that was active before the rebuild
\* are the same after the rebuild as before it, whether the rebuild
\* succeeds or fails, so no reader of that reference sees part of the new
\* index's chunks.
C15_RebuildLeavesPreviousStoreAlone ==
    [][(vectorstore # None /\ IsRebuildStep) =>
          StoreRecordsIn(vectorstore, remote') = StoreRecordsIn(vectorstore, remote)]_vars

\* C4: a rebuild that fails part-way leaves the index that was active before
\* it active, with the records it answered from.
C4_FailedRebuildKeepsIndex ==
    [][(vectorstore # None /\ last'.op \in RebuildOps /\ last'.outcome = "error") =>
          /\ vectorstore' = vectorstore
          /\ StoreRecords(vectorstore)' = StoreRecords(vectorstore)]_vars

C7_EmptyRebuildThenEmptyRetrieval ==
    /\ []((last.op \in RebuildOps /\ documents = <<>>) =>
              (vectorstore = None /\ last.outcome = "no documents"))
    /\ [][(/\ last.op \in RebuildOps /\ last.outcome = "no documents"
           /\ "OPENAI_API_KEY" \in env
           /\ last'.op = "chat") =>
              /\ last'.outcome \notin {"disabled", "raised"}
              /\ last'.retrieved = <<>>]_vars

\* C7 as the code has it: a rebuild from the empty document list builds no
\* index and raises no error; in that state no retrieval is performed: Send
\* is disabled and a question is not processed.
C7_EmptyRebuildThenNoRetrieval ==
    /\ (last.op \in RebuildOps /\ documents = <<>>) =>
           (vectorstore = None /\ last.outcome = "no documents")
    /\ (last.op = "chat" /\ documents = <<>> /\ vectorstore = None) =>
           /\ last.outcome = "disabled"
           /\ "retrieved" \notin DOMAIN last

\* the only document was removed with the key set, and a question is asked
C7_Witness ==
    /\ last.op = "chat"
    /\ documents = <<>>
    /\ vectorstore = None
    /\ uuids.docs > 0
    /\ "OPENAI_API_KEY" \in env

\* C28: whenever the document list is empty there is no active index, and
\* whenever there is no active index Send is disabled: a question asked
\* then is not processed.
C28_NoDocumentsNoIndexNoChat ==
    /\ documents = <<>> => vectorstore = None
    /\ vectorstore = None => chat_disabled
    /\ (last.op = "chat" /\ vectorstore = None) => last.outcome = "disabled"

\* the only document, indexed on the cloud backend, was removed and a
\* question is asked with the key set
C28_Witness ==
    /\ last.op = "chat" /\ last.outcome = "disabled"
    /\ documents = <<>>
    /\ remote # {}
    /\ "OPENAI_API_KEY" \in env

(***************************************************************************)
(* Properties of the tag operations.                                       *)
(***************************************************************************)
HoldsTag(doc, t) == t \in SeqToSet(doc.tags)

\* C9: remove_tag_from_document(d, t) on a document d holding t: when no
\* other document holds t, t is not in the global tag set afterwards; when
\* another document holds t, t stays in the global tag set.
C9_RemoveTagUpdatesGlobalSet ==
    [][\A i \in 1..Len(documents), t \in TagNames :
          remove_tag(i, t) =>
              LET others == \E j \in 1..Len(documents) :
                                j # i /\ HoldsTag(documents[j], t)
              IN  /\ ~others => t \notin tags'
                  /\ (others /\ t \in tags) => t \in tags']_vars

\* the tags held by the documents of the list
DocumentTags == UNION {SeqToSet(documents[i].tags) : i \in 1..Len(documents)}

\* C26: the global tag set is the union of the tag lists of the documents
\* in the document list.
C26_GlobalTagsAreDocumentTags == tags = DocumentTags

\* C27: after rename_tag_globally(old, new) with old different from new,
\* no document's tag list contains old, the global tag set does not
\* contain old, and every document that held old holds new.
C27_RenameReplacesEverywhere ==
    [][\A old_tag \in TagNames, new_tag \in TagNames :
          (old_tag # new_tag /\ rename_tag(old_tag, new_tag)) =>
              /\ \A i \in 1..Len(documents') : ~HoldsTag(documents'[i], old_tag)
              /\ old_tag \notin tags'
              /\ \A i \in 1..Len(documents) :
                     HoldsTag(documents[i], old_tag) => HoldsTag(documents'[i], new_tag)]_vars

(***************************************************************************)
(* Properties of the tag round trip.                                       *)
(***************************************************************************)
CommaFree(tags_list) ==
    \A n \in 1..Len(tags_list) : \A c \in 1..Len(tags_list[n]) : tags_list[n][c] # ","

\* C23: every tag held by a document is a non-empty string without a
\* comma, and the tags_str stored with each chunk of the active index
\* splits back to the tag list of its document.
C23_DocumentTagsSplitBack ==
    /\ \A i \in 1..Len(documents) :
          /\ CommaFree(documents[i].tags)
          /\ \A n \in 1..Len(documents[i].tags) : documents[i].tags[n] # <<>>
    /\ vectorstore # None =>
          \A r \in StoreRecords(vectorstore) :
             \A i \in 1..Len(documents) :
                documents[i].id = r.metadata.doc_id =>
                   tags_from_str(r.metadata.tags_str) = documents[i].tags

\* C8 as stated: every tag list whose tags hold no comma, the empty list
\* included, comes back unchanged from join-then-split, and an empty
\* tags_str gives the empty list.
C8_RoundTripCommaFree ==
    rt_pc = "decoded" =>
        /\ CommaFree(rt_tags) => rt_out = rt_tags
        /\ rt_str = <<>> => rt_out = <<>>

\* C8 as the code has it: every tag list whose tags hold no comma, other
\* than the list of one empty tag, comes back unchanged from
\* join-then-split, and an empty tags_str gives the empty list.
C8_RoundTripExceptOneEmptyTag ==
    rt_pc = "decoded" =>
        /\ (CommaFree(rt_tags) /\ rt_tags # << <<>> >>) => rt_out = rt_tags
        /\ rt_str = <<>> => rt_out = <<>>

\* a list of two comma-free tags has made the round trip
C8_Witness ==
    /\ rt_pc = "decoded"
    /\ Len(rt_tags) = 2
    /\ CommaFree(rt_tags)
    /\ rt_tags[1] # rt_tags[2]
    /\ rt_out = rt_tags

(***************************************************************************)
(* Properties of a query.                                                  *)
(***************************************************************************)
\* C6: a query with limit k that the backend answers returns at most k
\* records and at most as many as the index holds, one per match in the
\* backend's order, and the empty sequence when the index holds no record.
C6_QueryBoundedAndOrdered ==
    (q_pc = "done" /\ q_out.status = "ok") =>
        LET docs == q_out.documents
        IN  /\ Len(docs) <= q_out.k
            /\ Len(docs) <= Cardinality(q_index)
            /\ Len(docs) = Len(q_out.matches)
            /\ \A n \in 1..Len(docs) :
                   /\ q_out.matches[n] \in q_index
                   /\ docs[n].page_content = Get(q_out.matches[n].metadata, "text", "")
                   /\ \A key \in DOMAIN docs[n].metadata :
                          docs[n].metadata[key] = q_out.matches[n].metadata[key]
            /\ q_index = {} => docs = <<>>

\* the limit cut the answer short of an index holding more records
C6_Witness ==
    /\ q_pc = "done"
    /\ q_out.status = "ok"
    /\ q_out.k = 2
    /\ Len(q_out.documents) = 2
    /\ Cardinality(q_index) > 2

\* C25: for each match the backend returned, similarity_search returns a
\* record whose text is the "text" value of the match's metadata and whose
\* metadata is the match's metadata without the "text" key; the metadata
\* of the match itself is the same after the call as before.
C25_TextStrippedFromCopy ==
    (q_pc = "done" /\ q_out.status = "ok") =>
        \A n \in 1..Len(q_out.matches) :
            LET stored == q_out.matches[n].metadata
                returned == q_out.documents[n]
            IN  /\ "text" \in DOMAIN stored => returned.page_content = stored.text
                /\ DOMAIN returned.metadata = DOMAIN stored \ {"text"}
                /\ \A key \in DOMAIN returned.metadata :
                       returned.metadata[key] = stored[key]
                /\ q_out.after[n].metadata = stored

\* a match whose metadata holds a text and other keys was converted
C25_Witness ==
    /\ q_pc = "done"
    /\ q_out.status = "ok"
    /\ \E n \in 1..Len(q_out.matches) :
          /\ "text" \in DOMAIN q_out.matches[n].metadata
          /\ "text" \in DOMAIN q_out.after[n].metadata
          /\ "doc_id" \in DOMAIN q_out.documents[n].metadata

(***************************************************************************)
(* Properties of initialize_vectorstore on any document list.              *)
(***************************************************************************)
\* the configuration lacks what the cloud backend needs
MissingCloudConfiguration ==
    /\ IsPineconeType(vectorstore_type)
    /\ "PINECONE_API_KEY" \notin env \/ pinecone_index = ""

\* C16: a build of at least one chunk on the cloud backend, with the
\* embedding key present, while the cloud API key or the index name is
\* missing ends with an exception that leaves initialize_vectorstore and
\* reaches its caller, and nothing has been uploaded to the cloud index.
C16_MissingConfigurationRaises ==
    (/\ last.op = "initialize_vectorstore"
     /\ build_langchain_docs(documents) # <<>>
     /\ "OPENAI_API_KEY" \in env
     /\ MissingCloudConfiguration) =>
        /\ last.raises # "none"
        /\ remote = {}

\* what a retrieval returns for the ranking positions when docs are indexed
\* on the backend vtype (every key set, the cloud index empty before)
BackendAnswer(vtype, docs, positions) ==
    LET built == initialize_vectorstore(docs, vtype, "idx",
                     [keys |-> AllKeys, remote |-> {}, vectors |-> 0], 0)
    IN  Retrieve(built.store, MatchesAt(built.store, built.remote, positions))

\* C17: for the same document list and the same ranking, the in-memory
\* backend and the cloud backend return the same records: at most k of
\* them, each with the same text and the same metadata (keys and values).
C17_BackendsReturnSameRecords ==
    q_pc = "retrieved" =>
        /\ Len(q_out.documents) <= q_out.k
        /\ BackendAnswer("chroma", documents, q_out.positions)
               = BackendAnswer("pinecone", documents, q_out.positions)
        /\ q_out.documents = BackendAnswer(vectorstore.kind, documents, q_out.positions)

\* the documents of the list the loop does not skip, in list order
ValidDocuments(docs) == SelectSeq(docs, LAMBDA doc : ~SkipDocument(doc))

\* the chunk records the build made: the collection of the in-memory
\* store, the records upserted into the (empty before) cloud index
BuiltRecords ==
    IF vectorstore.kind = "pinecone"
    THEN {match.metadata : match \in remote}
    ELSE {vectorstore.docs[n].metadata : n \in DOMAIN vectorstore.docs}

\* the metadata expected for every chunk of every page of a valid document
ExpectedOf(doc) ==
    UNION {{[source   |-> Get(doc, "title", ""),
             doc_id   |-> Get(doc, "id", ""),
             doc_type |-> Get(doc, "type", ""),
             case_id  |-> Get(doc, "case_id", ""),
             tags_str |-> join(Get(doc, "tags", <<>>)),
             page     |-> i,
             chunk    |-> j,
             text     |-> split_text(doc.pages[i + 1])[j + 1]] :
                j \in 0..(Len(split_text(doc.pages[i + 1])) - 1)} :
              i \in 0..(Len(doc.pages) - 1)}

\* the metadata expected from a document list
ExpectedRecords ==
    UNION {ExpectedOf(documents[n]) :
              n \in {m \in DOMAIN documents : ~SkipDocument(documents[m])}}

\* C19: a document that is not a mapping or has no pages contributes no
\* chunk and does not end the build: a build that completes has indexed
\* every chunk of every valid document of the list and nothing else, and
\* the build stops for want of chunks only when no valid document has one.
C19_InvalidDocumentSkipped ==
    last.op = "initialize_vectorstore" =>
        /\ last.outcome = "built" => BuiltRecords = ExpectedRecords
        /\ last.outcome = "no chunks" => ExpectedRecords = {}

\* an invalid document came before a valid one and the build completed
C19_Witness ==
    /\ last.op = "initialize_vectorstore" /\ last.outcome = "built"
    /\ Len(documents) = 2
    /\ SkipDocument(documents[1]) /\ ~SkipDocument(documents[2])
    /\ BuiltRecords # {}

\* (doc_id, page, chunk) of a chunk record
Triple(metadata) == <<metadata.doc_id, metadata.page, metadata.chunk>>

\* the chunk records of one build, one per chunk built (the cloud index
\* was empty before; every record of it has its own vector id)
BuiltChunks ==
    IF vectorstore.kind = "pinecone"
    THEN {<<match.id, match.metadata>> : match \in remote}
    ELSE {<<n, vectorstore.docs[n].metadata>> : n \in DOMAIN vectorstore.docs}

\* no two chunk records of the build share (doc_id, page, chunk)
TriplesDistinct ==
    \A x, y \in BuiltChunks : Triple(x[2]) = Triple(y[2]) => x = y

\* the chunk numbers of every page of every document are 0..n-1
ChunksNumbered ==
    \A x \in BuiltChunks :
        LET same == {y \in BuiltChunks : /\ y[2].doc_id = x[2].doc_id
                                         /\ y[2].page = x[2].page}
        IN  {y[2].chunk : y \in same} = 0..(Cardinality(same) - 1)

\* the documents the loop does not skip have pairwise distinct ids
DistinctIds ==
    \A m, n \in DOMAIN ValidDocuments(documents) :
        Get(ValidDocuments(documents)[m], "id", "")
           = Get(ValidDocuments(documents)[n], "id", "") => m = n

Returned == pd_pc \in {"returned_document", "returned_None"}

\* C18: whenever process_document has returned and os.unlink did not fail,
\* the temporary file it created is gone, no handle on it is open, and
\* none was open when it was deleted.
C18_TempFileClosedThenDeleted ==
    (Returned /\ tmp.created /\ tmp.unlink \notin {"PermissionError", "Exception"}) =>
        /\ ~tmp.exists
        /\ ~tmp.open /\ tmp.readers = 0
        /\ ~tmp.unlinked_open

(***************************************************************************)
(* Properties of process_chat_input.                                       *)
(***************************************************************************)
\* the step is a question sent through the enabled Send button
IsChatStep == last'.op = "chat" /\ chat_history' # chat_history

\* C21: a question whose retrieval or generation fails ends inside
\* process_chat_input with the error outcome, never with an exception
\* leaving it, and adds to the chat history the user's message only: no
\* assistant message, no citations.
C21_ChatFailureIsOneErrorOutcome ==
    [][IsChatStep =>
          /\ last'.outcome \in {"answered", "error"}
          /\ last'.outcome = "error" =>
                 chat_history' = Append(chat_history,
                                        [role |-> "user", content |-> "question"])]_vars

\* generation failed after records had been retrieved
C21_Witness ==
    /\ last.op = "chat" /\ last.outcome = "error"
    /\ last.retrieved # <<>>
    /\ chat_history = <<[role |-> "user", content |-> "question"]>>

\* the step appends an assistant message
IsAnswerStep ==
    /\ last'.op = "chat"
    /\ Len(chat_history') > Len(chat_history)
    /\ chat_history'[Len(chat_history')].role = "assistant"

\* C30: every assistant message appended by process_chat_input directly
\* follows the user message of its own question and carries exactly the
\* citations computed from the records retrieved for that question, at
\* most 5 of them.
C30_AnswerFollowsItsQuestion ==
    /\ [](\A i \in 1..Len(chat_history) :
             chat_history[i].role = "assistant" =>
                 /\ i > 1 /\ chat_history[i - 1].role = "user"
                 /\ Len(chat_history[i].citations) <= RetrieverK)
    /\ [][IsAnswerStep =>
            LET n == Len(chat_history')
                message == chat_history'[n]
            IN  /\ n = Len(chat_history) + 2
                /\ SubSeq(chat_history', 1, n - 2) = chat_history
                /\ chat_history'[n - 1] = [role |-> "user", content |-> last'.question]
                /\ Len(last'.retrieved) <= RetrieverK
                /\ message.citations = on_retriever_end_result(last'.retrieved).citations
                /\ Len(message.citations) = Len(last'.retrieved)
                /\ \A c \in 1..Len(message.citations) :
                       /\ message.citations[c].text = last'.retrieved[c].page_content
                       /\ CitationTuple(message.citations[c])
                              = KeyTuple(last'.retrieved[c])]_vars

\* a question whose generation failed, then another question answered with
\* five citations out of an index of more records
C30_Witness ==
    /\ Len(chat_history) = 3
    /\ chat_history[1] = [role |-> "user", content |-> "q1"]
    /\ chat_history[2] = [role |-> "user", content |-> "q2"]
    /\ chat_history[3].role = "assistant"
    /\ Len(chat_history[3].citations) = RetrieverK
    /\ Cardinality(StoreRecords(vectorstore)) > RetrieverK
    /\ last.op = "chat" /\ last.question = "q2"

(***************************************************************************)
(* Properties of the 1500-character scenario.                              *)
(***************************************************************************)
\* C22: the page of 1500 characters is split into exactly 2 chunks, and
\* every query with k = 5 against the index built from the document
\* returns at most 2 records.
C22_TwoChunksAtMostTwoRecords ==
    /\ Len(split_text("long")) = 2
    /\ Len(build_langchain_docs(documents)) = 2
    /\ q_pc = "retrieved" => Len(q_out.documents) <= 2

(***************************************************************************)
(* Properties of the batched upload.                                       *)
(***************************************************************************)
\* the records of a sequence of requests, in the order sent
RECURSIVE Flatten(_)
Flatten(requests) ==
    IF requests = <<>> THEN <<>> ELSE Head(requests) \o Flatten(Tail(requests))

\* ceil(n / d)
CeilDiv(n, d) == (n + d - 1) \div d

\* C24: an upload of N chunks that the service accepts issues ceil(N/100)
\* upsert requests of at most 100 records each; the records sent are the
\* chunks, each once and in chunk order, under pairwise distinct
\* identifiers, and they are what the index then holds.
C24_UploadInBatchesOfHundred ==
    (last.op = "_upload_documents" /\ last.outcome = "built") =>
        LET langchain_docs == build_langchain_docs(documents)
            sent == Flatten(last.requests)
        IN  /\ Len(last.requests) = CeilDiv(Len(langchain_docs), 100)
            /\ \A b \in DOMAIN last.requests : Len(last.requests[b]) \in 1..100
            /\ Len(sent) = Len(langchain_docs)
            /\ \A n \in DOMAIN sent : sent[n].metadata = langchain_docs[n].metadata
            /\ Cardinality({sent[n].id : n \in DOMAIN sent}) = Len(sent)
            /\ remote = SeqToSet(sent)

\* an upload that needed a full batch and a partial one
C24_Witness ==
    /\ last.op = "_upload_documents" /\ last.outcome = "built"
    /\ Len(last.requests) = 2
    /\ Len(last.requests[1]) = 100
    /\ Len(last.requests[2]) \in 1..99
====
